---- MODULE Spec2Model ----
(***************************************************************************)
(* The task lifecycle of the rewriter application: the session draft       *)
(* (SessionManager), the storage root (util.py), the task ledger           *)
(* tasks.json (SessionManager.save_task / get_task_by_id /                 *)
(* update_task_status) and the request handlers of task.py.                *)
(*                                                                         *)
(* One session and its storage root are modelled.  A handler that reads    *)
(* and writes tasks.json is a sequence of steps, one per file access and   *)
(* one per call of the external generator, carried by a request slot.      *)
(* Spec runs the requests one at a time (each runs to completion before    *)
(* the next starts); SpecConc lets the steps of several requests           *)
(* interleave, as a threaded server does.                                  *)
(***************************************************************************)
EXTENDS Integers, Sequences, FiniteSets, TLC

\* ------------------------------------------------------------------ bounds
\* uuid4 task ids drawn by save_task
MaxTasks == 2
\* uuid4 article ids drawn by save_text_article / save_pdf_article
MaxArts == 2
\* entries of the draft's article list when SessionManager is called directly
MaxDraftLen == 4
\* input numbers of the files a storage root is listed with
MaxInputNum == 3

\* ------------------------------------------------------------ input values
\* Titles a form can carry after strip(); "" is the empty field.
Titles == {"Election"}
FormTitles == Titles \cup {""}
\* Bodies of a typed text article (non-empty after strip()).
TextBodies == {"story"}
\* Bodies of an uploaded file: one with the %PDF signature, one without.
PdfBodies == {"%PDF-1.4", "junk"}
BadPdfBodies == {b \in PdfBodies : b # "%PDF-1.4"}
\* Free-text instructions a form can carry after strip().
InstructionTexts == {"be brief"}
\* The bundled preset catalogue, and a name that is not in it.
PresetNames == {"news"}
FormPresets == PresetNames \cup {"nosuch", ""}
\* What the external generator can answer: a text, an empty text, an API error.
GenTexts == {"rewritten"}
GenResponses == GenTexts \cup {"", "APIError"}
\* Request slots: the requests that can be in flight at once.
Slots == {1, 2}
\* The session's storage root.
UserFolder == "instance/uploads/u1"

VARIABLES
    draft,      \* session["current_task"]: title, articles, instruction
    preset,     \* the draft's preset reference ("" when none)
    files,      \* the input<N>.txt / input<N>.pdf files of the storage root
    instrFile,  \* content of instruction.txt ("" when the file is absent)
    ledger,     \* tasks.json: its state (absent, ok, corrupt) and its records
    nextTask,   \* the next fresh task id
    nextArt,    \* the next fresh article id
    req         \* the request slots

vars == <<draft, preset, files, instrFile, ledger, nextTask, nextArt, req>>

\* ------------------------------------------------------------------ draft
EmptyDraft == [title |-> "", articles |-> <<>>, instruction |-> ""]

SetTaskTitle(d, title) == [d EXCEPT !.title = title]

SessionAddArticle(d, article_data) ==
    [d EXCEPT !.articles = Append(@, article_data)]

\* Fault variant: an empty instruction is not stored.
SetInstructionNonEmpty(d, instruction) ==
    IF instruction = "" THEN d ELSE [d EXCEPT !.instruction = instruction]

SetInstruction(d, instruction) == [d EXCEPT !.instruction = instruction]

\* Fault variant: readiness that looks at the articles only.
IsTaskReadyArticlesOnly(d) == d.articles # <<>>

\* Fault variant: readiness that looks at the title only.
IsTaskReadyTitleOnly(d) == d.title # ""

IsTaskReady(d) == d.title # "" /\ d.articles # <<>>

\* Fault variant: the first article, whatever the id asked for.
FindFirstArticle(articles, article_id) ==
    IF articles = <<>> THEN <<>> ELSE <<articles[1]>>

\* The first article with this id, as a sequence of length 0 or 1.
FindArticle(articles, article_id) ==
    LET hits == {i \in 1..Len(articles) : articles[i].id = article_id}
    IN  IF hits = {} THEN <<>>
        ELSE <<articles[CHOOSE i \in hits : \A j \in hits : i <= j]>>

\* The list comprehension of remove_article: every article with another id.
RECURSIVE DropId(_, _)
DropId(articles, article_id) ==
    IF articles = <<>> THEN <<>>
    ELSE IF Head(articles).id = article_id
         THEN DropId(Tail(articles), article_id)
         ELSE <<Head(articles)>> \o DropId(Tail(articles), article_id)

\* ----------------------------------------------------------- storage root
\* A file name <head><stem>.<ext>: numeral says whether int() accepts the
\* stem, num is the number it yields.  input<num>.<ext> is what the program
\* writes.
FileName(num, ext) ==
    [head |-> "input", numeral |-> TRUE, num |-> num, ext |-> ext]

\* Fault variant: the number of input files plus one.
CountInputFilesPlusOne(fs) ==
    Cardinality({f.name : f \in {g \in fs : g.name.head = "input"
                                              /\ g.name.ext \in {"pdf", "txt"}}}) + 1

\* The names that start with "input" and end with .pdf or .txt; of these the
\* ones whose stem int() accepts; max + 1, or 1 when there is none.
GetNextInputNumber(fs) ==
    LET existing_files == {f.name : f \in {g \in fs : g.name.head = "input"
                                                     /\ g.name.ext \in {"pdf", "txt"}}}
        numbers == {n.num : n \in {m \in existing_files : m.numeral}}
    IN  IF numbers = {} THEN 1
        ELSE (CHOOSE n \in numbers : \A m \in numbers : m <= n) + 1

\* Fault variant: nothing is written.
WriteFileNothing(fs, name, body) == fs

\* open(file_path, "w") and write: the file of that name is replaced.
WriteFile(fs, name, body) ==
    {f \in fs : f.name # name} \cup {[name |-> name, body |-> body]}

DeleteArticleFile(fs, name) == {f \in fs : f.name # name}

\* Fault variant: every file name is allowed.
AllowedFileAny(filename) == TRUE

\* allowed_file: the name has a dot and what follows its last dot is in
\* ALLOWED_EXTENSIONS.  A file name is the sequence of its dot-separated
\* pieces, <<>> for the empty name.
ALLOWED_EXTENSIONS == {"pdf", "txt"}
AllowedFile(filename) ==
    Len(filename) > 1 /\ filename[Len(filename)] \in ALLOWED_EXTENSIONS

ArticleData(id, type, name) == [id |-> id, type |-> type, file_path |-> name]

\* The content of a bundled preset, "" when there is none of that name.
GetPresetContent(preset_name) ==
    IF preset_name \in PresetNames THEN "style: " \o preset_name ELSE ""

\* ----------------------------------------------------------------- ledger
Statuses == {"pending", "processing", "completed", "failed"}

TaskRecord(task_id, d, user_folder) ==
    [task_id |-> task_id,
     title |-> d.title,
     articles |-> d.articles,
     instruction |-> d.instruction,
     status |-> "pending",
     result |-> "",
     user_folder |-> user_folder]

\* Fault variant: the records are taken from the file whether it parses or not.
LoadTasksUnchecked(l) == l.tasks

\* Fault variant: save_task that does not load the existing tasks.
LoadTasksFresh(l) == <<>>

\* json.load of tasks.json inside save_task: [] when absent or unparseable.
LoadTasksOrEmpty(l) == IF l.state = "ok" THEN l.tasks ELSE <<>>

TaskIndex(tasks, task_id) ==
    LET hits == {i \in 1..Len(tasks) : tasks[i].task_id = task_id}
    IN  IF hits = {} THEN 0 ELSE CHOOSE i \in hits : \A j \in hits : i <= j

\* Fault variant: a lookup that returns the first record whatever its id.
GetFirstTask(l, task_id) ==
    IF l.state # "ok" \/ l.tasks = <<>> THEN <<>> ELSE <<l.tasks[1]>>

\* The first record with this id, as a sequence of length 0 or 1 (None).
GetTaskById(l, task_id) ==
    IF l.state # "ok" \/ TaskIndex(l.tasks, task_id) = 0 THEN <<>>
    ELSE <<l.tasks[TaskIndex(l.tasks, task_id)]>>

\* Fault variant: the record is rebuilt from the id, the status and the result.
SetStatusRebuildsRecord(tasks, task_id, status, result) ==
    LET i == TaskIndex(tasks, task_id)
    IN  IF i = 0 THEN tasks
        ELSE [tasks EXCEPT ![i] =
                [@ EXCEPT !.status = status,
                          !.result = IF result = <<>> THEN @ ELSE result[1],
                          !.title = "",
                          !.articles = <<>>,
                          !.instruction = ""]]

\* Fault variant: the result is written even when none is given.
SetStatusAlwaysResult(tasks, task_id, status, result) ==
    LET i == TaskIndex(tasks, task_id)
    IN  IF i = 0 THEN tasks
        ELSE [tasks EXCEPT ![i] =
                [@ EXCEPT !.status = status,
                          !.result = IF result = <<>> THEN "" ELSE result[1]]]

\* The loop of update_task_status; result is <<>> for None, <<r>> otherwise.
SetStatus(tasks, task_id, status, result) ==
    LET i == TaskIndex(tasks, task_id)
    IN  IF i = 0 THEN tasks
        ELSE [tasks EXCEPT ![i] =
                [@ EXCEPT !.status = status,
                          !.result = IF result = <<>> THEN @ ELSE result[1]]]

\* What update_task_status returns: "False" when tasks.json is absent or does
\* not parse, "True" otherwise (whether or not a record had the id).
UpdateReturn(l, task_id) == IF l.state = "ok" THEN "True" ELSE "False"

\* task.get(key, default) on a ledger record.
TaskGet(task, key, default) ==
    IF key \in DOMAIN task THEN task[key] ELSE default

\* Fault variant: the draft is cleared whether or not the save succeeded.
DraftAlwaysCleared(d, task_id) == EmptyDraft

\* clear_current_task after a save that returned a task id (0 is None).
DraftAfterSave(d, task_id) == IF task_id # 0 THEN EmptyDraft ELSE d

\* The draft's preset reference: set_preset_instruction,
\* clear_preset_instruction, and its clearing with the draft on finalize.
SetPresetInstruction(preset_name) == preset_name
ClearPresetInstruction == ""
PresetAfterSave(p, task_id) == IF task_id # 0 THEN ClearPresetInstruction ELSE p

\* -------------------------------------------------------- rewriting client
\* Fault variant: every uploaded body passes for a PDF.
ReadHeaderAny(body) == "%PDF"

\* f.read(4) of an uploaded body.
ReadHeader(body) == IF body = "%PDF-1.4" THEN "%PDF" ELSE "junk"

\* load_articles: the files that yield an article (a PDF with the %PDF
\* signature, a text file that is not empty after strip()).
LoadArticles(fs) ==
    {f \in fs : IF f.name.ext = "pdf" THEN ReadHeader(f.body) = "%PDF"
                                        ELSE f.body # ""}

\* The input files of the root in an order os.listdir can return them: the
\* sequences without repetition over the names that start with "input" and
\* end with .txt or .pdf.
ListDirOrders(fs) ==
    LET input_files == {f \in fs : f.name.head = "input"
                                   /\ f.name.ext \in {"txt", "pdf"}}
        n == Cardinality(input_files)
    IN  {order \in [1..n -> input_files] :
            \A i, j \in 1..n : i # j => order[i] # order[j]}

\* What load_articles appends for one file, as a sequence of length 0 or 1:
\* the path of a PDF with the %PDF signature, the content of a text file
\* that is not empty.  Both are Python strings: is_path tells them apart
\* here, num is the number of the file read.
LoadedArticle(f) ==
    IF f.name.ext = "pdf"
    THEN IF ReadHeader(f.body) = "%PDF"
         THEN <<[is_path |-> TRUE, text |-> "", num |-> f.name.num]>>
         ELSE <<>>
    ELSE IF f.body # ""
         THEN <<[is_path |-> FALSE, text |-> f.body, num |-> f.name.num]>>
         ELSE <<>>

\* load_articles over the listed files, in their order.
RECURSIVE LoadArticlesSeq(_)
LoadArticlesSeq(listed) ==
    IF listed = <<>> THEN <<>>
    ELSE LoadedArticle(Head(listed)) \o LoadArticlesSeq(Tail(listed))

\* article.lower().endswith(".pdf") on a loaded string: true of every path
\* loaded, and of a text whose last characters are .pdf.
PdfSuffixedTexts == {"see report.pdf"}
EndsWithPdf(article) == article.is_path \/ article.text \in PdfSuffixedTexts

\* os.path.exists(article): a loaded path names a file of the root; a text
\* names no file.
PathExists(article, fs) ==
    /\ article.is_path
    /\ \E f \in fs : f.name.num = article.num /\ f.name.ext = "pdf"

\* The parts of a request.
PromptPart == [kind |-> "prompt", text |-> "prompt.txt", num |-> 0]
InstructionPart(instruction) == [kind |-> "instruction", text |-> instruction, num |-> 0]
TextPart(article) == [kind |-> "text", text |-> article.text, num |-> article.num]
PdfPart(article) == [kind |-> "pdf", text |-> "", num |-> article.num]

RECURSIVE TextParts(_)
TextParts(articles) ==
    IF articles = <<>> THEN <<>>
    ELSE (IF ~EndsWithPdf(Head(articles)) THEN <<TextPart(Head(articles))>>
          ELSE <<>>) \o TextParts(Tail(articles))

RECURSIVE PdfParts(_, _)
PdfParts(articles, fs) ==
    IF articles = <<>> THEN <<>>
    ELSE (IF EndsWithPdf(Head(articles)) /\ PathExists(Head(articles), fs)
          THEN <<PdfPart(Head(articles))>>
          ELSE <<>>) \o PdfParts(Tail(articles), fs)

\* _build_content_parts: the prompt, the instruction when there is one, the
\* strings that do not end with .pdf, the uploads of those that do and exist.
BuildContentParts(articles, instruction, fs) ==
    <<PromptPart>>
    \o (IF instruction # "" THEN <<InstructionPart(instruction)>> ELSE <<>>)
    \o TextParts(articles)
    \o PdfParts(articles, fs)

\* Fault variant: the preset id is ignored.
LoadInstructionFileOnly(instr_file, preset_id) == instr_file

\* load_instruction: the content of the preset file when a preset id is given
\* and its file exists; otherwise the content of instruction.txt, "" when it
\* cannot be read.
LoadInstruction(instr_file, preset_id) ==
    IF preset_id # "" /\ preset_id \in PresetNames
    THEN GetPresetContent(preset_id)
    ELSE instr_file

\* The files whose content becomes an article part of the request.
ArticleParts(fs) == {f.name : f \in LoadArticles(fs)}

NoArticlesError == "Error processing task: No articles found to process"
NoResponseError == "Error processing task: No response generated from Gemini AI"
ApiError == "Gemini API error: upstream"

\* What generate_content's answer becomes: the message raised, "" when none.
ResponseError(resp) ==
    IF resp = "APIError" THEN ApiError
    ELSE IF resp = "" THEN NoResponseError
    ELSE ""

\* ---------------------------------------------------------- request slots
IdleReq ==
    [pc |-> "idle", op |-> "none", task_id |-> 0, preset_id |-> "",
     tasks |-> <<>>, gen |-> "", error |-> "", io |-> "", flash |-> "",
     ret |-> 0, invoked |-> FALSE, writes |-> 0, upd |-> "",
     removed |-> <<>>, parts |-> {}, contents |-> <<>>,
     session |-> EmptyDraft, input_number |-> 0]

Free(r) == req[r].pc = "idle"

\* No request is in flight.
Quiet == \A r \in Slots : Free(r)

\* The handler returns: its locals are gone, the flashed message stays.
Done(rq, flash) ==
    [rq EXCEPT !.pc = "done", !.flash = flash, !.tasks = <<>>,
               !.gen = "", !.error = "", !.preset_id = "", !.parts = {}]

\* Fault variant: a guard that compares with the wrong status.
AlreadyCompleted(task) == task.status = "completed"

\* The guard of process_task: the task read is being processed.
AlreadyProcessing(task) == task.status = "processing"

\* Fault variant: the task is put back to pending before the client runs.
MarkStatusPending == "pending"

\* The status process_task writes before it calls the client.
MarkStatus == "processing"

\* Fault variant: the generator's text is written as result even on failure.
OutcomeResultGenOnly(rq) == rq.gen

\* Fault variant: the task is completed whatever the client did.
OutcomeStatusCompleted(rq) == "completed"

\* The status and result process_task writes at its end.
OutcomeStatus(rq) == IF rq.error = "" THEN "completed" ELSE "failed"
OutcomeResult(rq) == IF rq.error = "" THEN rq.gen ELSE rq.error


\* ------------------------------------------------------------------- Init
Init ==
    /\ draft = EmptyDraft
    /\ preset = ""
    /\ files = {}
    /\ instrFile = ""
    /\ ledger = [state |-> "absent", tasks |-> <<>>]
    /\ nextTask = 1
    /\ nextArt = 1
    /\ req = [r \in Slots |-> IdleReq]

\* ------------------------------------------------------ draft operations
\* The draft operations touch neither tasks.json nor the generator; they run
\* when no request on the ledger is in flight.
\* POST /task/new, action set_title, with a non-empty title.
SetTitle(title) ==
    /\ Quiet
    /\ draft' = SetTaskTitle(draft, title)
    /\ UNCHANGED <<preset, files, instrFile, ledger, nextTask, nextArt, req>>

\* POST /task/add_article: the article is stored under the next input
\* number and then added to the draft.
AddArticle(type, body) ==
    /\ Quiet
    /\ nextArt <= MaxArts
    /\ LET ext == IF type = "text" THEN "txt" ELSE "pdf"
           name == FileName(GetNextInputNumber(files), ext)
       IN  /\ files' = WriteFile(files, name, body)
           /\ draft' = SessionAddArticle(draft, ArticleData(nextArt, type, name))
    /\ nextArt' = nextArt + 1
    /\ UNCHANGED <<preset, instrFile, ledger, nextTask, req>>

\* POST /task/add_article with all its paths.  upload is <<>> when the request
\* has no pdf_file part, else <<[filename, body]>>.  The write of the file
\* succeeds (ok) or raises; a write that raises leaves no file or (partial)
\* an empty one.  The slot keeps the flashed category and the outcome of the
\* write.
AddArticleRequest(input_type, article_text, upload, ok, partial) ==
    LET ext == IF input_type = "text" THEN "txt" ELSE "pdf"
        name == FileName(GetNextInputNumber(files), ext)
        body == IF input_type = "text" THEN article_text ELSE upload[1].body
        rejected ==
            \/ input_type = "text" /\ article_text = ""
            \/ input_type = "pdf" /\ upload = <<>>
            \/ input_type = "pdf" /\ upload # <<>> /\ upload[1].filename = <<>>
            \/ input_type = "pdf" /\ upload # <<>> /\ ~AllowedFile(upload[1].filename)
        rq == [IdleReq EXCEPT !.op = "add_article"]
    IN  /\ Quiet
        /\ GetNextInputNumber(files) <= MaxInputNum
        /\ IF input_type \notin {"text", "pdf"}
           THEN /\ req' = [req EXCEPT ![1] = rq]
                /\ UNCHANGED <<draft, files, nextArt>>
           ELSE IF rejected
           THEN /\ req' = [req EXCEPT ![1] = [rq EXCEPT !.flash = "error"]]
                /\ UNCHANGED <<draft, files, nextArt>>
           ELSE IF ~ok
           THEN /\ req' = [req EXCEPT ![1] =
                            [rq EXCEPT !.flash = "error", !.io = "failed"]]
                /\ files' = IF partial THEN WriteFile(files, name, "") ELSE files
                /\ UNCHANGED <<draft, nextArt>>
           ELSE /\ nextArt <= MaxArts
                /\ files' = WriteFile(files, name, body)
                /\ draft' = SessionAddArticle(draft, ArticleData(nextArt, input_type, name))
                /\ nextArt' = nextArt + 1
                /\ req' = [req EXCEPT ![1] =
                            [rq EXCEPT !.flash = "success", !.io = "ok"]]
        /\ UNCHANGED <<preset, instrFile, ledger, nextTask>>

\* GET /task/remove_article/<article_id>: remove_article_with_cleanup.  The
\* article found is taken out of the draft; os.remove of its file succeeds
\* or raises OSError, which delete_article_file swallows; the handler flashes
\* success when an article was found.
RemoveArticle(article_id) ==
    LET removed == FindArticle(draft.articles, article_id)
    IN  /\ Quiet
        /\ draft' = [draft EXCEPT !.articles = DropId(@, article_id)]
        /\ \E ok \in BOOLEAN :
            /\ removed = <<>> => ok
            /\ files' = IF removed = <<>> \/ ~ok THEN files
                        ELSE DeleteArticleFile(files, removed[1].file_path)
            /\ req' = [req EXCEPT ![1] =
                        [IdleReq EXCEPT
                            !.op = "remove_article",
                            !.removed = removed,
                            !.io = IF ok THEN "ok" ELSE "failed",
                            !.flash = IF removed # <<>> THEN "success"
                                                       ELSE "error"]]
        /\ UNCHANGED <<preset, instrFile, ledger, nextTask, nextArt>>

\* POST /task/add_instruction with a preset selection and an instruction text.
AddInstruction(selected_preset, instruction_text) ==
    /\ Quiet
    /\ IF selected_preset # ""
       THEN IF GetPresetContent(selected_preset) # ""
            THEN /\ instrFile' = ""
                 /\ draft' = SetInstruction(draft, "")
                 /\ preset' = SetPresetInstruction(selected_preset)
            ELSE UNCHANGED <<instrFile, draft, preset>>
       ELSE IF instruction_text # ""
            THEN /\ instrFile' = instruction_text
                 /\ preset' = ClearPresetInstruction
                 /\ draft' = SetInstruction(draft, instruction_text)
            ELSE /\ instrFile' = ""
                 /\ draft' = SetInstruction(draft, "")
                 /\ preset' = ClearPresetInstruction
    /\ UNCHANGED <<files, ledger, nextTask, nextArt, req>>

\* ------------------------------------------- finalize (action create_task)
\* The handler starts: the form's title, when not empty, is saved first.
F_Title(r, title) ==
    /\ Free(r)
    /\ nextTask + Cardinality({q \in Slots : req[q].pc = "save"}) <= MaxTasks
    /\ draft' = IF title # "" THEN SetTaskTitle(draft, title) ELSE draft
    /\ req' = [req EXCEPT ![r] = [IdleReq EXCEPT !.pc = "save", !.op = "create_task"]]
    /\ UNCHANGED <<preset, files, instrFile, ledger, nextTask, nextArt>>

\* is_task_ready, then save_task up to tasks.append(task_record).
F_Save(r) ==
    /\ req[r].pc = "save"
    /\ IF IsTaskReady(draft)
       THEN /\ req' = [req EXCEPT ![r] =
                        [@ EXCEPT !.pc = "saveWrite",
                                  !.task_id = nextTask,
                                  !.tasks = Append(LoadTasksOrEmpty(ledger),
                                                   TaskRecord(nextTask, draft, UserFolder))]]
            /\ nextTask' = nextTask + 1
       ELSE /\ req' = [req EXCEPT ![r] = Done(@, "error")]
            /\ UNCHANGED nextTask
    /\ UNCHANGED <<draft, preset, files, instrFile, ledger, nextArt>>

\* json.dump of the tasks; on success the task id is returned and the
\* handler clears the draft.
F_Write(r) ==
    /\ req[r].pc = "saveWrite"
    /\ \E ok \in BOOLEAN :
        LET task_id == IF ok THEN req[r].task_id ELSE 0
        IN  /\ ledger' = IF ok THEN [state |-> "ok", tasks |-> req[r].tasks]
                         ELSE ledger
            /\ draft' = DraftAfterSave(draft, task_id)
            /\ preset' = PresetAfterSave(preset, task_id)
            /\ req' = [req EXCEPT ![r] =
                        [Done(@, IF ok THEN "success" ELSE "error")
                            EXCEPT !.ret = task_id,
                                   !.io = IF ok THEN "ok" ELSE "failed",
                                   !.writes = IF ok THEN 1 ELSE 0]]
    /\ UNCHANGED <<files, instrFile, nextTask, nextArt>>

\* ------------------------------------------------------------ process_task
\* get_task_by_id and the guard on the status read.
P_Check(r, task_id) ==
    /\ Free(r)
    /\ LET found == GetTaskById(ledger, task_id)
           rq == [IdleReq EXCEPT !.op = "process", !.task_id = task_id]
       IN  req' = [req EXCEPT ![r] =
                IF found = <<>> THEN Done(rq, "error")
                ELSE IF AlreadyProcessing(found[1]) THEN Done(rq, "info")
                ELSE [rq EXCEPT !.pc = "markRead",
                                !.preset_id = TaskGet(found[1], "preset_instruction", "")]]
    /\ UNCHANGED <<draft, preset, files, instrFile, ledger, nextTask, nextArt>>

\* update_task_status: tasks.json is read and the record changed in memory.
\* When the file is absent or does not parse, nothing is written.
UpdateRead(r, pcRead, pcWrite, pcNext, status, result) ==
    /\ req[r].pc = pcRead
    /\ req' = [req EXCEPT ![r] =
                IF ledger.state = "ok"
                THEN [@ EXCEPT !.pc = pcWrite,
                               !.tasks = SetStatus(ledger.tasks, req[r].task_id,
                                                   status, result)]
                ELSE [@ EXCEPT !.pc = pcNext]]
    /\ UNCHANGED <<draft, preset, files, instrFile, ledger, nextTask, nextArt>>

P_MarkRead(r) ==
    /\ req[r].op = "process"
    /\ UpdateRead(r, "markRead", "markWrite", "compose", MarkStatus, <<>>)

\* update_task_status: the tasks read are written back.
P_MarkWrite(r) ==
    /\ req[r].pc = "markWrite"
    /\ ledger' = [state |-> "ok", tasks |-> req[r].tasks]
    /\ req' = [req EXCEPT ![r] =
                [@ EXCEPT !.pc = "compose", !.tasks = <<>>, !.writes = @ + 1]]
    /\ UNCHANGED <<draft, preset, files, instrFile, nextTask, nextArt>>

\* RewritingClient.process_task up to the call of the generator: the input
\* files of the storage root are loaded; with no article it raises.
P_Compose(r) ==
    /\ req[r].pc = "compose"
    /\ req' = [req EXCEPT ![r] =
                IF LoadArticles(files) = {}
                THEN [@ EXCEPT !.pc = "finRead", !.error = NoArticlesError]
                ELSE [@ EXCEPT !.pc = "invoking", !.invoked = TRUE,
                               !.parts = ArticleParts(files)]]
    /\ UNCHANGED <<draft, preset, files, instrFile, ledger, nextTask, nextArt>>

\* generate_content returns.
P_Return(r, resp) ==
    /\ req[r].pc = "invoking"
    /\ req' = [req EXCEPT ![r] =
                [@ EXCEPT !.pc = "finRead",
                          !.gen = resp,
                          !.error = ResponseError(resp)]]
    /\ UNCHANGED <<draft, preset, files, instrFile, ledger, nextTask, nextArt>>

P_FinRead(r) ==
    /\ req[r].op = "process"
    /\ UpdateRead(r, "finRead", "finWrite", "finDone",
               OutcomeStatus(req[r]), <<OutcomeResult(req[r])>>)

P_FinWrite(r) ==
    /\ req[r].pc \in {"finWrite", "finDone"}
    /\ ledger' = IF req[r].pc = "finWrite"
                 THEN [state |-> "ok", tasks |-> req[r].tasks]
                 ELSE ledger
    /\ req' = [req EXCEPT ![r] =
                [Done(@, IF req[r].error = "" THEN "success" ELSE "error")
                    EXCEPT !.writes = IF req[r].pc = "finWrite" THEN @ + 1 ELSE @]]
    /\ UNCHANGED <<draft, preset, files, instrFile, nextTask, nextArt>>

\* The response is sent (a redirect with the flashed message) and the slot
\* is free again.
Respond(r) ==
    /\ req[r].pc = "done"
    /\ req' = [req EXCEPT ![r] = IdleReq]
    /\ UNCHANGED <<draft, preset, files, instrFile, ledger, nextTask, nextArt>>

\* ------------------------------------------------- ledger operations
\* One call of update_task_status(task_id, user_folder, status, result) as a
\* whole, made while no request is in flight; the slot keeps what it returned.
L_Update(task_id, status, result) ==
    /\ Quiet
    /\ ledger' = IF ledger.state = "ok"
                 THEN [ledger EXCEPT !.tasks = SetStatus(@, task_id, status, result)]
                 ELSE ledger
    /\ req' = [req EXCEPT ![1] =
                [IdleReq EXCEPT !.op = "update", !.task_id = task_id,
                                !.upd = UpdateReturn(ledger, task_id)]]
    /\ UNCHANGED <<draft, preset, files, instrFile, nextTask, nextArt>>

\* tasks.json stops parsing (a write that was cut short): json.load raises on
\* it; tasks keeps the records its bytes held.
CorruptLedger ==
    /\ Quiet
    /\ ledger.state = "ok"
    /\ ledger' = [ledger EXCEPT !.state = "corrupt"]
    /\ UNCHANGED <<draft, preset, files, instrFile, nextTask, nextArt, req>>

\* One call of get_task_by_id(task_id, user_folder); the slot keeps the record
\* returned (<<>> for None).
L_Find(task_id) ==
    /\ Quiet
    /\ req' = [req EXCEPT ![1] =
                [IdleReq EXCEPT !.op = "find", !.task_id = task_id,
                                !.tasks = GetTaskById(ledger, task_id)]]
    /\ UNCHANGED <<draft, preset, files, instrFile, ledger, nextTask, nextArt>>

\* ------------------------------------------------ session operations
\* SessionManager.add_article(article_data) called directly.
S_AddArticle(article_data) ==
    /\ Quiet
    /\ Len(draft.articles) < MaxDraftLen
    /\ draft' = SessionAddArticle(draft, article_data)
    /\ UNCHANGED <<preset, files, instrFile, ledger, nextTask, nextArt, req>>

\* SessionManager.remove_article(article_id) called directly; the slot keeps
\* the article returned (<<>> for None).
S_RemoveArticle(article_id) ==
    /\ Quiet
    /\ draft' = [draft EXCEPT !.articles = DropId(@, article_id)]
    /\ req' = [req EXCEPT ![1] =
                [IdleReq EXCEPT !.op = "remove_article",
                                !.removed = FindArticle(draft.articles, article_id)]]
    /\ UNCHANGED <<preset, files, instrFile, ledger, nextTask, nextArt>>

\* ------------------------------------------------ storage root listing
\* A file of this name is in the storage root (os.listdir returns it).
PutFile(name) ==
    /\ Quiet
    /\ files' = WriteFile(files, name, "story")
    /\ UNCHANGED <<draft, preset, instrFile, ledger, nextTask, nextArt, req>>

\* A file of the storage root is gone.
DropFile(name) ==
    /\ Quiet
    /\ \E f \in files : f.name = name
    /\ files' = DeleteArticleFile(files, name)
    /\ UNCHANGED <<draft, preset, instrFile, ledger, nextTask, nextArt, req>>

\* get_next_input_number(user_folder) is called; the slot keeps the number.
CallNextInputNumber ==
    /\ Quiet
    /\ req' = [req EXCEPT ![1] =
                [IdleReq EXCEPT !.op = "next_number",
                                !.ret = GetNextInputNumber(files)]]
    /\ UNCHANGED <<draft, preset, files, instrFile, ledger, nextTask, nextArt>>

\* ------------------------------------------------------ client call
\* RewritingClient.process_task(user_folder, prompt_file_path, preset_id)
\* called directly, up to the call of generate_content; the slot keeps the
\* request composed, whether the generator was called and the error raised.
C_Process(preset_id, listed) ==
    /\ Quiet
    /\ listed \in ListDirOrders(files)
    /\ LET articles == LoadArticlesSeq(listed)
           rq == [IdleReq EXCEPT !.op = "client", !.preset_id = preset_id]
       IN  req' = [req EXCEPT ![1] =
                IF articles = <<>>
                THEN [rq EXCEPT !.error = NoArticlesError]
                ELSE [rq EXCEPT
                        !.invoked = TRUE,
                        !.contents = BuildContentParts(
                                        articles,
                                        LoadInstruction(instrFile, preset_id),
                                        files)]]
    /\ UNCHANGED <<draft, preset, files, instrFile, ledger, nextTask, nextArt>>

\* --------------------------------------------------------- specifications
\* Requests run one at a time, each to completion before the next starts:
\* slot 1 carries the request in flight.  The session types text articles
\* and uploads files without the PDF signature (an upload with the signature
\* is loaded like a text article).
Next ==
    \/ \E title \in Titles : SetTitle(title)
    \/ \E body \in TextBodies : AddArticle("text", body)
    \/ \E body \in BadPdfBodies : AddArticle("pdf", body)
    \/ \E p \in FormPresets, t \in InstructionTexts \cup {""} : AddInstruction(p, t)
    \/ \E title \in FormTitles : F_Title(1, title)
    \/ F_Save(1)
    \/ F_Write(1)
    \/ \E task_id \in 1..MaxTasks : P_Check(1, task_id)
    \/ P_MarkRead(1)
    \/ P_MarkWrite(1)
    \/ P_Compose(1)
    \/ \E resp \in GenResponses : P_Return(1, resp)
    \/ P_FinRead(1)
    \/ P_FinWrite(1)
    \/ Respond(1)

Spec == Init /\ [][Next]_vars

\* The steps of the requests on the ledger interleave.  The session types
\* one text article into an empty draft and sends the title with the
\* create_task form; the generator answers with a text or an API error.
NextConc ==
    \/ \E body \in TextBodies : draft.articles = <<>> /\ AddArticle("text", body)
    \/ \E r \in Slots, title \in Titles : F_Title(r, title)
    \/ \E r \in Slots : F_Save(r)
    \/ \E r \in Slots : F_Write(r)
    \/ \E r \in Slots, task_id \in 1..MaxTasks : P_Check(r, task_id)
    \/ \E r \in Slots : P_MarkRead(r)
    \/ \E r \in Slots : P_MarkWrite(r)
    \/ \E r \in Slots : P_Compose(r)
    \/ \E r \in Slots, resp \in GenTexts \cup {"APIError"} : P_Return(r, resp)
    \/ \E r \in Slots : P_FinRead(r)
    \/ \E r \in Slots : P_FinWrite(r)
    \/ \E r \in Slots : Respond(r)

SpecConc == Init /\ [][NextConc]_vars

\* The draft operations, with every kind of upload and with removal, and the
\* finalize request that clears the draft.
NextDraft ==
    \/ \E title \in Titles : SetTitle(title)
    \/ \E body \in TextBodies : AddArticle("text", body)
    \/ \E body \in PdfBodies : AddArticle("pdf", body)
    \/ \E article_id \in 1..MaxArts : RemoveArticle(article_id)
    \/ \E p \in FormPresets, t \in InstructionTexts \cup {""} : AddInstruction(p, t)
    \/ \E title \in FormTitles : F_Title(1, title)
    \/ F_Save(1)
    \/ F_Write(1)
    \/ Respond(1)

SpecDraft == Init /\ [][NextDraft]_vars

\* The draft's article list under direct calls of SessionManager: the caller
\* holds three article records and may add any of them any number of times.
ArticleMetas == {ArticleData(i, "text", FileName(i, "txt")) : i \in {1, 2, 3}}
ArticleIds == {a.id : a \in ArticleMetas}

NextSession ==
    \/ \E article_data \in ArticleMetas : S_AddArticle(article_data)
    \/ \E article_id \in ArticleIds : S_RemoveArticle(article_id)

SpecSession == Init /\ [][NextSession]_vars

\* get_next_input_number on the listings of a storage root: the input files
\* the program writes, a file input<text>.txt whose stem is not a number, a
\* file that does not start with "input" and one with another extension.
InputNames == {FileName(n, e) : n \in 1..MaxInputNum, e \in {"txt", "pdf"}}
OtherNames ==
    {[head |-> "input", numeral |-> FALSE, num |-> 0, ext |-> "txt"],
     [head |-> "notes", numeral |-> TRUE, num |-> MaxInputNum + 5, ext |-> "txt"],
     [head |-> "input", numeral |-> TRUE, num |-> MaxInputNum + 5, ext |-> "json"]}

NextNumber ==
    \/ \E name \in InputNames \cup OtherNames : PutFile(name)
    \/ \E name \in InputNames \cup OtherNames : DropFile(name)
    \/ CallNextInputNumber

SpecNumber == Init /\ [][NextNumber]_vars

\* The client called directly on the roots the draft requests leave: texts
\* (one of them ending in .pdf), uploads with and without the PDF signature,
\* an instruction.txt or none, and any preset id.
ClientTextBodies == TextBodies \cup PdfSuffixedTexts

NextClient ==
    \/ \E body \in ClientTextBodies : AddArticle("text", body)
    \/ \E body \in PdfBodies : AddArticle("pdf", body)
    \/ \E p \in FormPresets, t \in InstructionTexts \cup {""} : AddInstruction(p, t)
    \/ \E preset_id \in FormPresets :
        \E listed \in ListDirOrders(files) : C_Process(preset_id, listed)

SpecClient == Init /\ [][NextClient]_vars

\* The ledger operations called directly: tasks are finalized from a draft of
\* one typed article, and update_task_status is called with any task id
\* (one more than the ids drawn), status and result.
UpdateIds == 1..(MaxTasks + 1)
UpdateResults == {<<>>, <<"boom">>, <<"rewritten">>}

NextLedger ==
    \/ \E body \in TextBodies : draft.articles = <<>> /\ AddArticle("text", body)
    \/ \E title \in Titles : F_Title(1, title)
    \/ F_Save(1)
    \/ F_Write(1)
    \/ Respond(1)
    \/ \E task_id \in UpdateIds, status \in Statuses, result \in UpdateResults :
            L_Update(task_id, status, result)

SpecLedger == Init /\ [][NextLedger]_vars

\* The add_article and remove_article requests with every form they can
\* carry: an input type that is text, pdf or neither, a text or none, no
\* upload or one whose name is empty, allowed or not allowed.
InputTypes == {"text", "pdf", "other"}
UploadNames == {<<>>, <<"a", "pdf">>, <<"a", "txt">>, <<"a", "exe">>, <<"a">>}
Uploads == {<<>>} \cup {<<[filename |-> n, body |-> "%PDF-1.4"]>> : n \in UploadNames}
\* The write succeeds, or fails leaving nothing, or fails leaving a file.
WriteOutcomes ==
    {[ok |-> TRUE, partial |-> FALSE], [ok |-> FALSE, partial |-> FALSE],
     [ok |-> FALSE, partial |-> TRUE]}

NextAdd ==
    \/ \E article_text \in TextBodies \cup {""}, w \in WriteOutcomes :
            AddArticleRequest("text", article_text, <<>>, w.ok, w.partial)
    \/ \E upload \in Uploads, w \in WriteOutcomes :
            AddArticleRequest("pdf", "", upload, w.ok, w.partial)
    \/ AddArticleRequest("other", "", <<>>, TRUE, FALSE)
    \/ \E article_id \in 1..MaxArts : RemoveArticle(article_id)

SpecAdd == Init /\ [][NextAdd]_vars

\* Finalize and lookup on a ledger that can stop parsing between requests.
NextCorrupt ==
    \/ \E title \in Titles : SetTitle(title)
    \/ \E body \in TextBodies : AddArticle("text", body)
    \/ \E title \in FormTitles : F_Title(1, title)
    \/ F_Save(1)
    \/ F_Write(1)
    \/ Respond(1)
    \/ CorruptLedger
    \/ \E task_id \in UpdateIds : L_Find(task_id)

SpecCorrupt == Init /\ [][NextCorrupt]_vars

\* ======================================================================
\* Properties
\* ======================================================================
\* The status changes of one step: <<from, to>> for every task in the ledger
\* before and after it whose status differs.
StatusChanges ==
    {<<ledger.tasks[i].status, ledger'.tasks[j].status>> :
        <<i, j>> \in {p \in (DOMAIN ledger.tasks) \X (DOMAIN ledger'.tasks) :
            /\ ledger.tasks[p[1]].task_id = ledger'.tasks[p[2]].task_id
            /\ ledger.tasks[p[1]].status # ledger'.tasks[p[2]].status}}

SpecTransitions ==
    {<<"pending", "processing">>, <<"processing", "completed">>,
     <<"processing", "failed">>, <<"failed", "processing">>}

C2_RejectedWhileProcessing ==
    [][\A r \in Slots :
         LET found == GetTaskById(ledger, req'[r].task_id)
         IN  (/\ req[r].pc = "idle"
              /\ req'[r].pc # "idle"
              /\ req'[r].op = "process"
              /\ found # <<>>
              /\ found[1].status = "processing")
             => (/\ req'[r].pc = "done"
                 /\ req'[r].flash = "info"
                 /\ ledger' = ledger
                 /\ req'[r].writes = 0
                 /\ ~req'[r].invoked)]_vars

\* A request has been rejected with info while the task is still processing
\* in another request.
C2_Witness ==
    \E r, q \in Slots :
        /\ req[r].pc = "done" /\ req[r].op = "process" /\ req[r].flash = "info"
        /\ req[q].op = "process" /\ req[q].task_id = req[r].task_id
        /\ req[q].pc = "invoking"

\* C3: the generator is never being invoked by two requests for the same
\* task_id at once.
C3_OneInvocationPerTask ==
    \A r, q \in Slots :
        (/\ r # q
         /\ req[r].pc = "invoking"
         /\ req[q].pc = "invoking")
        => req[r].task_id # req[q].task_id

C5_NotLeftProcessing ==
    Quiet => \A i \in DOMAIN ledger.tasks : ledger.tasks[i].status # "processing"

\* C6: save_task on a draft with an empty title or no article returns no
\* task id and changes neither the draft nor the ledger.
C6_NotReadyNoOp ==
    [][(/\ req[1].pc = "save"
        /\ req'[1].pc # "save"
        /\ (draft.title = "" \/ draft.articles = <<>>))
       => (/\ req'[1].pc = "done"
           /\ req'[1].ret = 0
           /\ draft' = draft
           /\ preset' = preset
           /\ ledger' = ledger
           /\ nextTask' = nextTask)]_vars

\* A create_task request ended without a task id on a draft that has a
\* title and no article.
C6_Witness ==
    /\ req[1].pc = "done" /\ req[1].op = "create_task"
    /\ req[1].ret = 0 /\ req[1].io = ""
    /\ draft.title # "" /\ draft.articles = <<>>

\* C7: a successful finalize appends exactly one record at the end of the
\* ledger: its task_id is new, its status pending, its result empty, its
\* title, articles and instruction those of the draft; the records before
\* it are unchanged; the draft is cleared.
C7_AppendsSnapshot ==
    [][(req[1].pc = "saveWrite" /\ req'[1].ret # 0)
       => LET old == ledger.tasks
              new == ledger'.tasks
              rec == new[Len(new)]
          IN  /\ ledger'.state = "ok"
              /\ Len(new) = Len(old) + 1
              /\ SubSeq(new, 1, Len(old)) = old
              /\ rec.task_id = req'[1].ret
              /\ \A i \in DOMAIN old : old[i].task_id # rec.task_id
              /\ rec.status = "pending"
              /\ rec.result = ""
              /\ rec.title = draft.title
              /\ rec.articles = draft.articles
              /\ rec.instruction = draft.instruction
              /\ draft' = EmptyDraft
              /\ preset' = ""]_vars

\* A second task has just been appended behind the first.
C7_Witness ==
    /\ req[1].pc = "done" /\ req[1].op = "create_task" /\ req[1].ret # 0
    /\ Len(ledger.tasks) = 2
    /\ ledger.tasks[2].task_id = req[1].ret
    /\ draft = EmptyDraft

\* C8: when the write of tasks.json fails in save_task, no task id is
\* returned and the draft (title, articles, instruction, preset) is as it
\* was when save_task was called.
C8_FailedWriteKeepsDraft ==
    [][(req[1].pc = "saveWrite" /\ req'[1].io = "failed")
       => (/\ req'[1].pc = "done"
           /\ req'[1].ret = 0
           /\ draft' = draft
           /\ preset' = preset)]_vars

\* A create_task request ended on a failed write and the draft is still
\* ready.
C8_Witness ==
    /\ req[1].pc = "done" /\ req[1].op = "create_task"
    /\ req[1].io = "failed" /\ req[1].ret = 0
    /\ draft.title # "" /\ draft.articles # <<>>

\* C9: right after a record is appended, get_task_by_id with its task_id
\* returns a record equal to the one appended.
C9_FindAfterAppend ==
    [][(req[1].pc = "saveWrite" /\ req'[1].ret # 0)
       => GetTaskById(ledger', req'[1].ret)
            = <<req[1].tasks[Len(req[1].tasks)]>>]_vars

\* A record has just been appended to a ledger whose first task has already
\* been processed.
C9_Witness ==
    /\ req[1].pc = "done" /\ req[1].op = "create_task" /\ req[1].ret = 2
    /\ Len(ledger.tasks) = 2
    /\ ledger.tasks[1].status \in {"completed", "failed"}

\* C10: the record appended for a draft that holds a preset reference
\* carries that reference in its field preset_instruction.
C10_RecordCarriesPreset ==
    [][(req[1].pc = "saveWrite" /\ req'[1].ret # 0 /\ preset # "")
       => TaskGet(ledger'.tasks[Len(ledger'.tasks)], "preset_instruction", "")
            = preset]_vars

C12_AbsentIdReportsFailure ==
    [][\A task_id \in UpdateIds, status \in Statuses, result \in UpdateResults :
         (/\ L_Update(task_id, status, result)
          /\ ledger.state = "ok"
          /\ GetTaskById(ledger, task_id) = <<>>)
         => (/\ req'[1].upd = "False"
             /\ ledger' = ledger)]_vars

\* The list without its first entry of this id.
RECURSIVE RemoveFirst(_, _)
RemoveFirst(articles, article_id) ==
    IF articles = <<>> THEN <<>>
    ELSE IF Head(articles).id = article_id THEN Tail(articles)
    ELSE <<Head(articles)>> \o RemoveFirst(Tail(articles), article_id)

\* C13: add_article appends the article to the draft's list; remove_article
\* takes out only the first entry with the id and returns it, and the other
\* entries keep their order; with no entry of that id it returns nothing and
\* changes nothing.
C13_RemoveTakesFirstOnly ==
    [][/\ \A article_data \in ArticleMetas :
            S_AddArticle(article_data)
            => draft'.articles = Append(draft.articles, article_data)
       /\ \A article_id \in ArticleIds :
            S_RemoveArticle(article_id)
            => (/\ draft'.articles = RemoveFirst(draft.articles, article_id)
                /\ req'[1].removed = FindArticle(draft.articles, article_id)
                /\ (FindArticle(draft.articles, article_id) = <<>>
                        => draft' = draft))]_vars

\* The numbers N for which the root holds input<N>.txt or input<N>.pdf.
InputNumbersIn(fs) ==
    {n \in 1..MaxInputNum :
        \E f \in fs, e \in {"txt", "pdf"} : f.name = FileName(n, e)}

\* C14: get_next_input_number returns 1 when the root holds no file
\* input<N>.txt or input<N>.pdf, and otherwise the largest such N plus one,
\* whatever gaps there are below it and whatever other files the root holds.
C14_NextIsMaxPlusOne ==
    [][CallNextInputNumber
       => LET ns == InputNumbersIn(files)
          IN  /\ ns = {} => req'[1].ret = 1
              /\ ns # {} => /\ req'[1].ret - 1 \in ns
                            /\ \A n \in ns : n < req'[1].ret]_vars

\* The root holds input1.txt and input3.pdf, no input2, and a file whose
\* stem is not a number; the call returned 4.
C14_Witness ==
    /\ req[1].op = "next_number" /\ req[1].ret = 4
    /\ InputNumbersIn(files) = {1, 3}
    /\ \E f \in files : f.name = FileName(1, "txt")
    /\ \E f \in files : f.name = FileName(3, "pdf")
    /\ \E f \in files : f.name.head = "input" /\ ~f.name.numeral

C16_PartsAreTheTasksArticles ==
    [][(/\ req[1].pc = "compose"
        /\ req'[1].pc = "invoking")
       => LET found == GetTaskById(ledger, req[1].task_id)
          IN  /\ found # <<>>
              /\ req'[1].parts \subseteq
                    {found[1].articles[i].file_path :
                        i \in DOMAIN found[1].articles}]_vars

\* The storage root holds one input file, an upload without the PDF
\* signature.
OnlyBadPdf ==
    /\ Cardinality(files) = 1
    /\ \A f \in files : f.name.ext = "pdf" /\ f.body \in BadPdfBodies

C18_DraftArticlesHaveFiles ==
    [][/\ \A i \in DOMAIN draft'.articles :
            \E f \in files' : f.name = draft'.articles[i].file_path
       /\ \A article_id \in 1..MaxArts :
            LET removed == FindArticle(draft.articles, article_id)
            IN  (RemoveArticle(article_id) /\ removed # <<>>)
                => /\ \A i \in DOMAIN draft'.articles :
                        draft'.articles[i].id # article_id
                   /\ req'[1].flash = "success"
                   /\ (req'[1].io = "ok"
                        => ~\E f \in files' : f.name = removed[1].file_path)]_vars

\* An article was removed and the delete of its file failed: success was
\* flashed, the file is still in the root, and the other article is in the
\* draft with its file.
C18_Witness ==
    /\ req[1].op = "remove_article" /\ req[1].io = "failed"
    /\ req[1].flash = "success"
    /\ req[1].removed # <<>>
    /\ \E f \in files : f.name = req[1].removed[1].file_path
    /\ Len(draft.articles) = 1
    /\ Cardinality(files) = 2

\* C19: a task id that is in the ledger is in the ledger after every step,
\* however the reads and writes of finalize and process_task requests
\* interleave.
C19_TasksNeverDeleted ==
    [][\A i \in DOMAIN ledger.tasks :
         \E j \in DOMAIN ledger'.tasks :
            ledger'.tasks[j].task_id = ledger.tasks[i].task_id]_vars

\* C20: the record of a task keeps its task_id, title, articles, instruction
\* and user_folder through every step; only status and result change.
C20_SnapshotImmutable ==
    [][\A i \in DOMAIN ledger.tasks :
         /\ i \in DOMAIN ledger'.tasks
         /\ LET old == ledger.tasks[i]
                new == ledger'.tasks[i]
            IN  /\ DOMAIN new = DOMAIN old
                /\ \A k \in DOMAIN old \ {"status", "result"} :
                        new[k] = old[k]]_vars

\* The first task has been processed to completion and a second task with
\* another article finalized after it, and the draft has since been given a
\* title and an instruction the first task does not have.
C20_Witness ==
    /\ Len(ledger.tasks) = 2
    /\ ledger.tasks[1].status = "completed"
    /\ ledger.tasks[1].result \in GenTexts
    /\ ledger.tasks[1].articles # ledger.tasks[2].articles
    /\ draft.title # ""
    /\ draft.instruction # ""
    /\ draft.instruction # ledger.tasks[1].instruction

\* C21: every record of the ledger has a non-empty title and at least one
\* article.
C21_RecordsHaveTitleAndArticle ==
    \A i \in DOMAIN ledger.tasks :
        /\ ledger.tasks[i].title # ""
        /\ ledger.tasks[i].articles # <<>>

\* The ledger holds a task of two articles that has been processed.
C21_Witness ==
    /\ Len(ledger.tasks) = 1
    /\ Len(ledger.tasks[1].articles) = 2
    /\ ledger.tasks[1].title \in Titles
    /\ ledger.tasks[1].status \in {"completed", "failed"}

\* C22: the input number under which an add_article request stores its
\* file is greater than every number given out before in the root: greater
\* than the number of every file in the root and than the number of the
\* article removed by the request before it.
C22_NumbersNeverReused ==
    [][\A type \in {"text", "pdf"}, body \in TextBodies \cup PdfBodies :
         AddArticle(type, body)
         => LET new == draft'.articles[Len(draft'.articles)].file_path.num
            IN  /\ \A f \in files : f.name.num < new
                /\ (req[1].op = "remove_article" /\ req[1].removed # <<>>)
                     => req[1].removed[1].file_path.num < new]_vars

\* The place of a kind of part in the order of a request.
KindRank(kind) ==
    CASE kind = "prompt" -> 1
      [] kind = "instruction" -> 2
      [] kind = "text" -> 3
      [] kind = "pdf" -> 4

\* C23: the request composed holds the prompt first, then the instruction
\* exactly when it is not empty, then the text articles, then the PDF
\* articles; every text loaded is in it as a text part and every PDF loaded
\* as a PDF part.
C23_PartsInOrderAndComplete ==
    [][\A preset_id \in FormPresets, listed \in ListDirOrders(files) :
         (C_Process(preset_id, listed) /\ req'[1].invoked)
         => LET c == req'[1].contents
                articles == LoadArticlesSeq(listed)
                instruction == LoadInstruction(instrFile, preset_id)
            IN  /\ c[1] = PromptPart
                /\ \A i \in DOMAIN c : i > 1 => c[i].kind # "prompt"
                /\ \A i, j \in DOMAIN c :
                        i < j => KindRank(c[i].kind) <= KindRank(c[j].kind)
                /\ (instruction # "")
                        <=> (\E i \in DOMAIN c : c[i].kind = "instruction")
                /\ \A i \in DOMAIN c :
                        c[i].kind = "instruction" => c[i].text = instruction
                /\ \A k \in DOMAIN articles :
                        \E i \in DOMAIN c :
                            /\ c[i].num = articles[k].num
                            /\ c[i].kind = IF articles[k].is_path THEN "pdf"
                                                                  ELSE "text"
                            /\ c[i].text = articles[k].text]_vars

\* C24: the generator is not called with a request that holds neither a
\* text part nor a PDF part.
C24_NoCallWithoutArticleParts ==
    [][\A preset_id \in FormPresets, listed \in ListDirOrders(files) :
         (C_Process(preset_id, listed) /\ req'[1].invoked)
         => \E i \in DOMAIN req'[1].contents :
                req'[1].contents[i].kind \in {"text", "pdf"}]_vars

\* The instruction a request holds, "" when it holds none.
InstructionOf(c) ==
    IF \E i \in DOMAIN c : c[i].kind = "instruction"
    THEN c[CHOOSE i \in DOMAIN c : c[i].kind = "instruction"].text
    ELSE ""

\* C25 as stated: the instruction of a request is the preset's content when
\* a preset id is given and the preset exists, empty when a preset id is
\* given and the preset is missing (whatever instruction.txt holds), and the
\* content of instruction.txt (empty when absent) when no preset id is given.
C25_MissingPresetGivesEmpty ==
    [][\A preset_id \in FormPresets, listed \in ListDirOrders(files) :
         (C_Process(preset_id, listed) /\ req'[1].invoked)
         => InstructionOf(req'[1].contents) =
                IF preset_id = "" THEN instrFile
                ELSE IF preset_id \in PresetNames THEN GetPresetContent(preset_id)
                ELSE ""]_vars

\* C25 amended: the instruction of a request is the preset's content when a
\* preset id is given and the preset exists; in every other case, a missing
\* preset included, it is the content of instruction.txt (empty when absent).
C25_MissingPresetFallsBackToFile ==
    [][\A preset_id \in FormPresets, listed \in ListDirOrders(files) :
         (C_Process(preset_id, listed) /\ req'[1].invoked)
         => InstructionOf(req'[1].contents) =
                IF preset_id \in PresetNames THEN GetPresetContent(preset_id)
                ELSE instrFile]_vars

\* A request was composed with the id of a missing preset while the root
\* holds an instruction.txt: it carries the text of that file.
C25_Witness ==
    /\ req[1].op = "client" /\ req[1].invoked
    /\ req[1].preset_id # "" /\ req[1].preset_id \notin PresetNames
    /\ instrFile \in InstructionTexts
    /\ InstructionOf(req[1].contents) = instrFile

\* C26: save_task on a tasks.json that does not parse goes on with an empty
\* list: when its write succeeds the ledger parses again and holds exactly
\* the new record and the task id is returned; get_task_by_id on a
\* tasks.json that does not parse returns None.
C26_CorruptLedgerIsEmpty ==
    [][/\ (req[1].pc = "save" /\ ledger.state = "corrupt" /\ IsTaskReady(draft))
            => (/\ req'[1].pc = "saveWrite"
                /\ Len(req'[1].tasks) = 1)
       /\ (req[1].pc = "saveWrite" /\ ledger.state = "corrupt"
                                  /\ req'[1].io = "ok")
            => (/\ req'[1].pc = "done"
                /\ req'[1].ret = req[1].task_id
                /\ req'[1].ret # 0
                /\ ledger'.state = "ok"
                /\ Len(ledger'.tasks) = 1
                /\ ledger'.tasks[1].task_id = req'[1].ret)
       /\ \A task_id \in UpdateIds :
            (L_Find(task_id) /\ ledger.state = "corrupt")
            => req'[1].tasks = <<>>]_vars

\* The ledger that held task 1 stopped parsing and the next finalize left a
\* ledger that holds task 2 alone.
C26_Witness ==
    /\ ledger.state = "ok"
    /\ Len(ledger.tasks) = 1
    /\ ledger.tasks[1].task_id = 2
    /\ req[1].pc = "done" /\ req[1].ret = 2

\* C27: an add_article request whose text is empty, whose upload is missing,
\* unnamed or of a name that is not allowed, or whose file write fails,
\* flashes an error and leaves the draft as it was.
C27_FailedAddKeepsDraft ==
    [][LET kept == /\ draft' = draft
                   /\ nextArt' = nextArt
                   /\ req'[1].flash = "error"
       IN  /\ \A article_text \in TextBodies \cup {""}, w \in WriteOutcomes :
                (/\ AddArticleRequest("text", article_text, <<>>, w.ok, w.partial)
                 /\ (~w.ok \/ article_text = ""))
                => kept
           /\ \A upload \in Uploads, w \in WriteOutcomes :
                (/\ AddArticleRequest("pdf", "", upload, w.ok, w.partial)
                 /\ \/ ~w.ok
                    \/ upload = <<>>
                    \/ Len(upload[1].filename) < 2
                    \/ upload[1].filename[Len(upload[1].filename)]
                            \notin {"pdf", "txt"})
                => kept]_vars

\* A write failed in a draft that holds an article: the error was flashed,
\* the draft holds that one article, and the root holds the empty file the
\* failed write left beside the article's file.
C27_Witness ==
    /\ req[1].op = "add_article" /\ req[1].io = "failed"
    /\ req[1].flash = "error"
    /\ Len(draft.articles) = 1
    /\ Cardinality(files) = 2
    /\ \E f \in files : f.body = ""

\* The remove_article request in a root whose files can also be deleted from
\* outside the program, so that an article of the draft can have lost its
\* file: text articles are added (the write can fail), articles are removed
\* by id, files are dropped.
NextRemove ==
    \/ \E article_text \in TextBodies, w \in WriteOutcomes :
         AddArticleRequest("text", article_text, <<>>, w.ok, w.partial)
    \/ \E article_id \in 1..MaxArts : RemoveArticle(article_id)
    \/ \E name \in {f.name : f \in files} : DropFile(name)

SpecRemove == Init /\ [][NextRemove]_vars

\* C28: a remove_article request for an id that no article of the draft has
\* flashes an error and changes neither the draft nor the files; for an id
\* that an article of the draft has it flashes success and the article is
\* out of the draft, whether its file was there, was deleted or could not
\* be deleted.
C28_RemoveReportsByMatch ==
    [][\A article_id \in 1..MaxArts :
         RemoveArticle(article_id)
         => IF \A i \in DOMAIN draft.articles : draft.articles[i].id # article_id
            THEN /\ req'[1].flash = "error"
                 /\ draft' = draft
                 /\ files' = files
            ELSE /\ req'[1].flash = "success"
                 /\ \A i \in DOMAIN draft'.articles :
                        draft'.articles[i].id # article_id]_vars

\* A removal was asked for an id that is not in the draft, which holds
\* another article: the error was flashed and the article and its file are
\* still there.
C28_Witness ==
    /\ req[1].op = "remove_article" /\ req[1].flash = "error"
    /\ req[1].removed = <<>>
    /\ Len(draft.articles) = 1
    /\ \E f \in files : f.name = draft.articles[1].file_path

\* The instruction a task record stands for: the content of the preset it
\* names when it names one, its free text otherwise ("" is none).
RecordedInstruction(task) ==
    IF TaskGet(task, "preset_instruction", "") # ""
    THEN GetPresetContent(task.preset_instruction)
    ELSE task.instruction

\* C29: the instruction in the request the client composes for a task is the
\* instruction recorded for that task when it was finalized, whatever was
\* done to the instruction of a later draft and whatever instruction.txt the
\* storage root holds.
C29_SentInstructionIsRecorded ==
    [][(/\ P_Compose(1)
        /\ req'[1].invoked
        /\ GetTaskById(ledger, req[1].task_id) # <<>>)
       => LoadInstruction(instrFile, req[1].preset_id)
            = RecordedInstruction(GetTaskById(ledger, req[1].task_id)[1])]_vars

A_Start(r) ==
    /\ Free(r)
    /\ nextArt + Cardinality({q \in Slots : req[q].op = "add_article"
                                           /\ req[q].pc \in {"lookup", "write"}})
         <= MaxArts
    /\ req' = [req EXCEPT ![r] =
                [IdleReq EXCEPT !.pc = "lookup", !.op = "add_article",
                                !.session = draft]]
    /\ UNCHANGED <<draft, preset, files, instrFile, ledger, nextTask, nextArt>>

\* input_number = get_next_input_number(user_folder).
A_Lookup(r) ==
    /\ req[r].pc = "lookup"
    /\ GetNextInputNumber(files) <= MaxInputNum
    /\ req' = [req EXCEPT ![r] =
                [@ EXCEPT !.pc = "write",
                          !.input_number = GetNextInputNumber(files)]]
    /\ UNCHANGED <<draft, preset, files, instrFile, ledger, nextTask, nextArt>>

\* save_text_article writes input<N>.txt; when the write succeeded the
\* article is added to the request's session, and the message is flashed.
A_Write(r, article_text) ==
    /\ req[r].pc = "write"
    /\ LET name == FileName(req[r].input_number, "txt")
       IN  \E ok \in BOOLEAN :
            IF ok
            THEN /\ files' = WriteFile(files, name, article_text)
                 /\ nextArt' = nextArt + 1
                 /\ req' = [req EXCEPT ![r] =
                             [@ EXCEPT !.pc = "done", !.flash = "success",
                                       !.io = "ok",
                                       !.session = SessionAddArticle(@,
                                           ArticleData(nextArt, "text", name))]]
            ELSE /\ req' = [req EXCEPT ![r] =
                             [@ EXCEPT !.pc = "done", !.flash = "error",
                                       !.io = "failed"]]
                 /\ UNCHANGED <<files, nextArt>>
    /\ UNCHANGED <<draft, preset, instrFile, ledger, nextTask>>

\* The response reaches the browser, which keeps its cookie.
A_Respond(r) ==
    /\ req[r].op = "add_article"
    /\ req[r].pc = "done"
    /\ draft' = req[r].session
    /\ req' = [req EXCEPT ![r] = IdleReq]
    /\ UNCHANGED <<preset, files, instrFile, ledger, nextTask, nextArt>>

\* POST /task/new, action create_task, from its cookie to its response in one
\* step: the title of the form is saved, a ready draft is appended to the
\* ledger and cleared when the write succeeded.
CreateTaskRequest(title) ==
    LET d == IF title # "" THEN SetTaskTitle(draft, title) ELSE draft
    IN  /\ nextTask <= MaxTasks
        /\ IF IsTaskReady(d)
           THEN \E ok \in BOOLEAN :
                 LET task_id == IF ok THEN nextTask ELSE 0
                 IN  /\ ledger' = IF ok
                                  THEN [state |-> "ok",
                                        tasks |-> Append(LoadTasksOrEmpty(ledger),
                                                    TaskRecord(nextTask, d, UserFolder))]
                                  ELSE ledger
                     /\ draft' = DraftAfterSave(d, task_id)
                     /\ preset' = PresetAfterSave(preset, task_id)
                     /\ nextTask' = nextTask + 1
           ELSE /\ draft' = d
                /\ UNCHANGED <<preset, ledger, nextTask>>
        /\ UNCHANGED <<files, instrFile, nextArt, req>>

\* Text articles are added by requests whose steps interleave; articles are
\* removed and the draft is finalized between them.
NextRace ==
    \/ \E r \in Slots : A_Start(r)
    \/ \E r \in Slots : A_Lookup(r)
    \/ \E r \in Slots, article_text \in TextBodies : A_Write(r, article_text)
    \/ \E r \in Slots : A_Respond(r)
    \/ \E article_id \in 1..MaxArts : RemoveArticle(article_id)
    \/ \E title \in FormTitles : CreateTaskRequest(title)

SpecRace == Init /\ [][NextRace]_vars

\* The articles of the draft and of every task of the ledger.
ArticlesInRoot ==
    {draft.articles[i] : i \in DOMAIN draft.articles}
    \cup UNION {{ledger.tasks[t].articles[i] : i \in DOMAIN ledger.tasks[t].articles}
                : t \in DOMAIN ledger.tasks}

\* C31: in every state, two different articles of the storage root (of the
\* draft or of a task of the ledger) have different storage paths, so that
\* removing one never deletes the file of another; this with add_article
\* requests whose number lookup and file write interleave.
C31_NoSharedStoragePath ==
    \A a, b \in ArticlesInRoot : a.id # b.id => a.file_path # b.file_path

====
